---- MODULE Spec2Model ----
(***************************************************************************)
(* Bird-nest detector: the output decoder (processYoloOutput, in the       *)
(* worker and in the utility module), the worker's message protocol        *)
(* (self.onmessage) and the component that drives it (BirdNestDetector).   *)
(*                                                                         *)
(* Numbers.  Tensor values, objectness, class scores and thresholds are    *)
(* fixed-point: the integer n stands for n / Scale.  A score, the product  *)
(* of two such values, is kept exactly as an integer over Scale * Scale.   *)
(* A box coordinate is the exact fraction <<numerator, denominator>>.      *)
(* A read past the end of a typed array gives Undefined, arithmetic on it  *)
(* gives NaN, and every comparison with either is false, as in JavaScript. *)
(***************************************************************************)
EXTENDS Integers, Sequences, FiniteSets, TLC

\* ------------------------------------------------------------ bounds
MaxN == 2          \* rows / boxes / grid height and width of a generated tensor
SeedLen == 4       \* period of the generated tensor data
MaxMsgs == 3       \* messages a client posts to the worker
MaxClicks == 2     \* detect clicks in the component
MaxSide == 2       \* modelWidth and modelHeight given to preprocessImage
PixelPeriod == 5   \* period of the canvas bytes

\* --------------------------------------------------------- constants
Scale == 20        \* fixed-point denominator: one slider step (0.05) is 1
DefaultConfidence == 5     \* 0.25, the worker's default threshold
BoxSize == 6       \* [x, y, w, h, conf, cls] record of the flat fallback
DirectChannels == 84       \* channels of the direct [1, 84, N] format
ClassOffset == 5   \* first class slot of a row; dimensions[2] > 5 selects Format 1
ModelSize == 640   \* preprocessImage's default modelWidth and modelHeight
InitialThreshold == 5      \* 0.25, the slider's initial value
DefaultIou == 9    \* 0.45, the worker's default iouThreshold
MaxByte == 255     \* divisor of the normalisation, the largest canvas byte

NaN == 0 - 999999
Undefined == 0 - 999998

classNames == <<"birdnest">>

\* ---------------------------------------------------- JavaScript values
IsNum(v) == v # NaN /\ v # Undefined

JsLt(a, b) == IsNum(a) /\ IsNum(b) /\ a < b
JsGt(a, b) == IsNum(a) /\ IsNum(b) /\ a > b
JsGe(a, b) == IsNum(a) /\ IsNum(b) /\ a >= b
JsMul(a, b) == IF IsNum(a) /\ IsNum(b) THEN a * b ELSE NaN

\* data[i] on a Float32Array (or the Array made from it): undefined out of range
Read(data, i) == IF i >= 0 /\ i < Len(data) THEN data[i + 1] ELSE Undefined

\* classNames[i]
ClassNameAt(i) == IF i >= 0 /\ i < Len(classNames) THEN classNames[i + 1] ELSE "undefined"

\* Math.round of the fixed-point value v (halves round up)
MathRound(v) == IF IsNum(v) THEN (2 * v + Scale) \div (2 * Scale) ELSE NaN

\* Math.min on two plain integers; NaN if either is NaN
MathMin(a, b) == IF ~IsNum(a) \/ ~IsNum(b) THEN NaN ELSE IF a < b THEN a ELSE b

\* a threshold (over Scale) in the units of a score (over Scale * Scale)
ScoreUnits(t) == IF IsNum(t) THEN t * Scale ELSE t

\* the pushes of loop iterations lo..hi, in order (halving keeps the evaluation shallow)
RECURSIVE FlattenRange(_, _, _)
FlattenRange(ss, lo, hi) ==
    IF lo > hi THEN <<>>
    ELSE IF lo = hi THEN ss[lo]
    ELSE LET mid == (lo + hi) \div 2
         IN  FlattenRange(ss, lo, mid) \o FlattenRange(ss, mid + 1, hi)

Flatten(ss) == FlattenRange(ss, 1, Len(ss))

RECURSIVE Product(_)
Product(s) == IF s = <<>> THEN 1 ELSE Head(s) * Product(Tail(s))

\* ------------------------------------------------------------ decoder
\* the box scaled without the centre-to-corner shift
ScaledBoxNoCentre(x, y, width, height, g) ==
    LET frac(num, den) == IF IsNum(num) THEN <<num, den>> ELSE <<NaN, 1>>
        scaled(v, orig) == IF IsNum(v) THEN v * orig ELSE NaN
    IN  << frac(scaled(x, g.originalWidth), Scale * g.width),
           frac(scaled(y, g.originalHeight), Scale * g.height),
           frac(scaled(width, g.originalWidth), Scale * g.width),
           frac(scaled(height, g.originalHeight), Scale * g.height) >>

\* (x - width / 2) * xScale, width * xScale, ... with xScale = originalWidth / modelWidth
ScaledBox(x, y, width, height, g) ==
    LET frac(num, den) == IF IsNum(num) THEN <<num, den>> ELSE <<NaN, 1>>
        centre(c, size) == IF IsNum(c) /\ IsNum(size) THEN 2 * c - size ELSE NaN
        scaled(v, orig) == IF IsNum(v) THEN v * orig ELSE NaN
    IN  << frac(scaled(centre(x, width), g.originalWidth), 2 * Scale * g.width),
           frac(scaled(centre(y, height), g.originalHeight), 2 * Scale * g.height),
           frac(scaled(width, g.originalWidth), Scale * g.width),
           frac(scaled(height, g.originalHeight), Scale * g.height) >>

\* let maxClassProb = 0, classId = 0; for (c ...) if (classProb > maxClassProb) {...}
RECURSIVE FindMaxClass(_, _, _, _)
FindMaxClass(probs, c, maxClassProb, classId) ==
    IF c >= Len(probs) THEN [prob |-> maxClassProb, id |-> classId]
    ELSE IF JsGt(probs[c + 1], maxClassProb)
         THEN FindMaxClass(probs, c + 1, probs[c + 1], c)
         ELSE FindMaxClass(probs, c + 1, maxClassProb, classId)

Detection(bbox, score, classId, className) ==
    [bbox |-> bbox, score |-> score, class_id |-> classId, class_name |-> className]

\* the two threshold tests written the wrong way round
UtilRowsCandidateFlipped(data, i, detectionSize, g, t) ==
    LET baseIndex == i * detectionSize
        confidence == Read(data, baseIndex + 4)
        best == FindMaxClass([c \in 1..Len(classNames) |-> Read(data, baseIndex + 5 + (c - 1))], 0, 0, 0)
        score == JsMul(confidence, best.prob)
    IN  IF JsGt(confidence, t) THEN <<>>
        ELSE IF JsGt(score, ScoreUnits(t)) THEN <<>>
        ELSE << Detection(ScaledBox(Read(data, baseIndex), Read(data, baseIndex + 1),
                                    Read(data, baseIndex + 2), Read(data, baseIndex + 3), g),
                          score, best.id, ClassNameAt(best.id)) >>

\* Format 1 of the utility decoder, one row: [cx, cy, w, h, confidence, class scores...]
UtilRowsCandidate(data, i, detectionSize, g, t) ==
    LET baseIndex == i * detectionSize
        x == Read(data, baseIndex)
        y == Read(data, baseIndex + 1)
        width == Read(data, baseIndex + 2)
        height == Read(data, baseIndex + 3)
        confidence == Read(data, baseIndex + 4)
        best == FindMaxClass([c \in 1..Len(classNames) |-> Read(data, baseIndex + 5 + (c - 1))], 0, 0, 0)
        score == JsMul(confidence, best.prob)
    IN  IF JsLt(confidence, t) THEN <<>>
        ELSE IF JsLt(score, ScoreUnits(t)) THEN <<>>
        ELSE << Detection(ScaledBox(x, y, width, height, g), score, best.id, ClassNameAt(best.id)) >>

UtilRowsFormat(data, dimensions, g, t) ==
    LET numDetections == dimensions[2]
        detectionSize == dimensions[3]
    IN  Flatten([k \in 1..numDetections |-> UtilRowsCandidate(data, k - 1, detectionSize, g, t)])

\* the class score left out of the score
WorkerRowsCandidateNoClass(data, i, detectionSize, g, t) ==
    LET baseIndex == i * detectionSize
        confidence == Read(data, baseIndex + 4)
    IN  IF JsLt(confidence, t) THEN <<>>
        ELSE << Detection(ScaledBox(Read(data, baseIndex), Read(data, baseIndex + 1),
                                    Read(data, baseIndex + 2), Read(data, baseIndex + 3), g),
                          ScoreUnits(confidence), 0, ClassNameAt(0)) >>

\* Format 1 of the worker decoder, one row
WorkerRowsCandidate(data, i, detectionSize, g, t) ==
    LET baseIndex == i * detectionSize
        x == Read(data, baseIndex)
        y == Read(data, baseIndex + 1)
        width == Read(data, baseIndex + 2)
        height == Read(data, baseIndex + 3)
        confidence == Read(data, baseIndex + 4)
        best == FindMaxClass([c \in 1..Len(classNames) |-> Read(data, baseIndex + 5 + (c - 1))], 0, 0, 0)
        score == JsMul(confidence, best.prob)
    IN  IF JsLt(confidence, t) THEN <<>>
        ELSE IF JsLt(score, ScoreUnits(t)) THEN <<>>
        ELSE << Detection(ScaledBox(x, y, width, height, g), score, best.id, ClassNameAt(best.id)) >>

WorkerRowsFormat(data, dimensions, g, t) ==
    LET numDetections == dimensions[2]
        detectionSize == dimensions[3]
    IN  Flatten([k \in 1..numDetections |-> WorkerRowsCandidate(data, k - 1, detectionSize, g, t)])

getIndexFrom4D(dimensions, n, c, h, w) ==
    n * dimensions[2] * dimensions[3] * dimensions[4]
      + c * dimensions[3] * dimensions[4]
      + h * dimensions[4]
      + w

\* Format 2 (utility decoder only), one grid cell
GridCandidate(data, dimensions, cy, cx, g, t) ==
    LET confidence == Read(data, getIndexFrom4D(dimensions, 0, 4, cy, cx))
        best == FindMaxClass([c \in 1..Len(classNames) |->
                                 Read(data, getIndexFrom4D(dimensions, 0, 5 + (c - 1), cy, cx))], 0, 0, 0)
        score == JsMul(confidence, best.prob)
        x == Read(data, getIndexFrom4D(dimensions, 0, 0, cy, cx))
        y == Read(data, getIndexFrom4D(dimensions, 0, 1, cy, cx))
        width == Read(data, getIndexFrom4D(dimensions, 0, 2, cy, cx))
        height == Read(data, getIndexFrom4D(dimensions, 0, 3, cy, cx))
    IN  IF JsLt(confidence, t) THEN <<>>
        ELSE IF JsLt(score, ScoreUnits(t)) THEN <<>>
        ELSE << Detection(ScaledBox(x, y, width, height, g), score, best.id, ClassNameAt(best.id)) >>

GridFormat(data, dimensions, g, t) ==
    LET gridHeight == dimensions[3]
        gridWidth == dimensions[4]
    IN  Flatten([k \in 1..(gridHeight * gridWidth) |->
                    GridCandidate(data, dimensions, (k - 1) \div gridWidth, (k - 1) % gridWidth, g, t)])

\* Format 3 (utility decoder only), one box of [1, 84, numBoxes]
DirectCandidate(data, numBoxes, i, g, t) ==
    LET x == Read(data, 0 * numBoxes + i)
        y == Read(data, 1 * numBoxes + i)
        width == Read(data, 2 * numBoxes + i)
        height == Read(data, 3 * numBoxes + i)
        confidence == Read(data, 4 * numBoxes + i)
    IN  IF JsLt(confidence, t) THEN <<>>
        ELSE << Detection(ScaledBox(x, y, width, height, g), ScoreUnits(confidence), 0, ClassNameAt(0)) >>

DirectFormat(data, dimensions, g, t) ==
    LET numBoxes == dimensions[3]
    IN  Flatten([k \in 1..numBoxes |-> DirectCandidate(data, numBoxes, k - 1, g, t)])

\* the record kept when its confidence is below the threshold
FlatRecordInverted(flatData, i, g, t) ==
    LET confidence == Read(flatData, i + 4)
        classId == MathRound(Read(flatData, i + 5))
    IN  IF JsLt(confidence, t)
        THEN << Detection(ScaledBox(Read(flatData, i), Read(flatData, i + 1),
                                    Read(flatData, i + 2), Read(flatData, i + 3), g),
                          ScoreUnits(confidence), classId,
                          ClassNameAt(MathMin(classId, Len(classNames) - 1))) >>
        ELSE <<>>

\* the 6-value record starting at index i (the same statements in both decoders)
FlatRecord(flatData, i, g, t) ==
    LET confidence == Read(flatData, i + 4)
        classId == MathRound(Read(flatData, i + 5))
    IN  IF JsGe(confidence, t)
        THEN << Detection(ScaledBox(Read(flatData, i), Read(flatData, i + 1),
                                    Read(flatData, i + 2), Read(flatData, i + 3), g),
                          ScoreUnits(confidence), classId,
                          ClassNameAt(MathMin(classId, Len(classNames) - 1))) >>
        ELSE <<>>

\* number of iterations of: for (let i = 0; i < length; i += 6)
Strides(length) == (length + BoxSize - 1) \div BoxSize

\* utility decoder, last resort: every shape the three formats do not take
UtilFallback(data, g, t) ==
    LET flatData == data
        batchDetections ==
            Flatten([k \in 1..Strides(Len(flatData)) |->
                        LET i == (k - 1) * BoxSize
                        IN  IF i + 5 < Len(flatData) THEN FlatRecord(flatData, i, g, t) ELSE <<>>])
    IN  IF Len(batchDetections) > 0 THEN batchDetections ELSE <<>>

\* processYoloOutput of the utility module
UtilLayout(dimensions) ==
    IF Len(dimensions) = 3 /\ dimensions[3] > ClassOffset THEN "rows"
    ELSE IF Len(dimensions) = 4 THEN "grid"
    ELSE IF Len(dimensions) = 3 /\ dimensions[2] = DirectChannels THEN "direct"
    ELSE "fallback"

UtilProcessYoloOutput(outputTensor, g, t) ==
    LET data == outputTensor.data
        dimensions == outputTensor.dims
        layout == UtilLayout(dimensions)
    IN  IF layout = "rows" THEN UtilRowsFormat(data, dimensions, g, t)
        ELSE IF layout = "grid" THEN GridFormat(data, dimensions, g, t)
        ELSE IF layout = "direct" THEN DirectFormat(data, dimensions, g, t)
        ELSE UtilFallback(data, g, t)

\* worker decoder, flat array of detections
WorkerFlat(data, g, t) ==
    LET flatData == data
    IN  Flatten([k \in 1..Strides(Len(flatData)) |->
                    LET i == (k - 1) * BoxSize
                    IN  IF i + BoxSize <= Len(flatData) THEN FlatRecord(flatData, i, g, t) ELSE <<>>])

\* worker decoder, [batch, num_detections, xywh+conf+classes] with 5 or fewer elements
BatchCandidate(data, baseIdx, elementsPerDetection, g, t) ==
    LET confidence == Read(data, baseIdx + 4)
        best == FindMaxClass([c \in 1..Len(classNames) |->
                                 IF baseIdx + 5 + (c - 1) < baseIdx + elementsPerDetection
                                 THEN Read(data, baseIdx + 5 + (c - 1))
                                 ELSE Undefined], 0, 0, 0)
        score == JsMul(confidence, IF JsGt(best.prob, 0) THEN best.prob ELSE Scale)
    IN  IF JsGe(confidence, t)
        THEN IF JsLt(score, ScoreUnits(t)) THEN <<>>
             ELSE << Detection(ScaledBox(Read(data, baseIdx), Read(data, baseIdx + 1),
                                         Read(data, baseIdx + 2), Read(data, baseIdx + 3), g),
                               score, best.id, ClassNameAt(best.id)) >>
        ELSE <<>>

WorkerBatch(data, dimensions, g, t) ==
    LET batchSize == dimensions[1]
        numDetections == dimensions[2]
        elementsPerDetection == dimensions[3]
    IN  Flatten([k \in 1..(batchSize * numDetections) |->
                    LET b == (k - 1) \div numDetections
                        i == (k - 1) % numDetections
                    IN  BatchCandidate(data, b * numDetections * elementsPerDetection + i * elementsPerDetection,
                                       elementsPerDetection, g, t)])

\* processYoloOutput of the worker
WorkerLayout(dimensions) ==
    IF Len(dimensions) = 3 /\ dimensions[3] > ClassOffset THEN "rows"
    ELSE IF Len(dimensions) = 1 \/ (Len(dimensions) = 2 /\ dimensions[1] = 1) THEN "flat"
    ELSE IF Len(dimensions) = 3 THEN "batch"
    ELSE "none"

WorkerProcessYoloOutput(outputTensor, g, t) ==
    LET data == outputTensor.data
        dimensions == outputTensor.dims
        layout == WorkerLayout(dimensions)
    IN  IF layout = "rows" THEN WorkerRowsFormat(data, dimensions, g, t)
        ELSE IF layout = "flat" THEN WorkerFlat(data, g, t)
        ELSE IF layout = "batch" THEN WorkerBatch(data, dimensions, g, t)
        ELSE <<>>

\* the indices data[...] is evaluated at, branch by branch, in a run at threshold t
ClassSlots == 0..(Len(classNames) - 1)

\* Format 1 (the same statements in both decoders): the row, then its class slots
\* unless "if (confidence < confidenceThreshold) continue" skipped them
RowsReadIndices(data, dimensions, t) ==
    UNION { LET baseIndex == (k - 1) * dimensions[3]
            IN  (baseIndex..(baseIndex + 4))
                  \cup (IF JsLt(Read(data, baseIndex + 4), t) THEN {}
                        ELSE {baseIndex + 5 + c : c \in ClassSlots})
            : k \in 1..dimensions[2] }

\* Format 2: confidence, then the class slots, then the box of the cells not skipped
GridReadIndices(data, dimensions, t) ==
    UNION { LET cy == (k - 1) \div dimensions[4]
                cx == (k - 1) % dimensions[4]
                confidence == Read(data, getIndexFrom4D(dimensions, 0, 4, cy, cx))
                best == FindMaxClass([c \in 1..Len(classNames) |->
                                         Read(data, getIndexFrom4D(dimensions, 0, 5 + (c - 1), cy, cx))],
                                     0, 0, 0)
                score == JsMul(confidence, best.prob)
            IN  {getIndexFrom4D(dimensions, 0, 4, cy, cx)}
                  \cup (IF JsLt(confidence, t) THEN {}
                        ELSE {getIndexFrom4D(dimensions, 0, 5 + c, cy, cx) : c \in ClassSlots}
                               \cup (IF JsLt(score, ScoreUnits(t)) THEN {}
                                     ELSE {getIndexFrom4D(dimensions, 0, c, cy, cx) : c \in 0..3}))
            : k \in 1..(dimensions[3] * dimensions[4]) }

\* Format 3: channels 0..4 of every box
DirectReadIndices(dimensions) ==
    {c * dimensions[3] + i : c \in 0..4, i \in 0..(dimensions[3] - 1)}

\* the 6-value records: confidence, then the rest of a record that passes
RecordReadIndices(flatData, complete, t) ==
    UNION { LET i == (k - 1) * BoxSize
            IN  IF ~complete[k] THEN {}
                ELSE {i + 4} \cup (IF JsGe(Read(flatData, i + 4), t)
                                   THEN (i..(i + 3)) \cup {i + 5} ELSE {})
            : k \in 1..Strides(Len(flatData)) }

\* worker, 3-D with 5 or fewer elements: confidence, then the box and the class slots
\* inside the detection of a candidate that passes
BatchReadIndices(data, dimensions, t) ==
    UNION { LET baseIdx == (k - 1) * dimensions[3]
            IN  {baseIdx + 4}
                  \cup (IF JsGe(Read(data, baseIdx + 4), t)
                        THEN (baseIdx..(baseIdx + 3))
                               \cup {baseIdx + 5 + c : c \in {c \in ClassSlots : 5 + c < dimensions[3]}}
                        ELSE {})
            : k \in 1..(dimensions[1] * dimensions[2]) }

UtilReadIndices(outputTensor, t) ==
    LET data == outputTensor.data
        dimensions == outputTensor.dims
        layout == UtilLayout(dimensions)
    IN  IF layout = "rows" THEN RowsReadIndices(data, dimensions, t)
        ELSE IF layout = "grid" THEN GridReadIndices(data, dimensions, t)
        ELSE IF layout = "direct" THEN DirectReadIndices(dimensions)
        ELSE RecordReadIndices(data, [k \in 1..Strides(Len(data)) |-> (k - 1) * BoxSize + 5 < Len(data)], t)

WorkerReadIndices(outputTensor, t) ==
    LET data == outputTensor.data
        dimensions == outputTensor.dims
        layout == WorkerLayout(dimensions)
    IN  IF layout = "rows" THEN RowsReadIndices(data, dimensions, t)
        ELSE IF layout = "flat"
        THEN RecordReadIndices(data, [k \in 1..Strides(Len(data)) |-> (k - 1) * BoxSize + BoxSize <= Len(data)], t)
        ELSE IF layout = "batch" THEN BatchReadIndices(data, dimensions, t)
        ELSE {}

\* the error processYoloOutput ends with ("none": it returns).  Neither decoder has a
\* throw statement, a read past the buffer gives undefined instead of throwing, and the
\* last-resort branch runs inside try { ... } catch (err) { console.error(...) }.
UtilDecodeError(outputTensor) == "none"

WorkerDecodeError(outputTensor) == "none"

\* ------------------------------------------------------------- state
VARIABLES
    \* decoder runs: one generated output tensor and what both decoders return for it
    input, size, phase, utilDets, workerDets,
    \* the worker (modelWorker.ts)
    session,      \* let session: 0 is null, n > 0 the n-th session created
    inbox,        \* messages posted to the worker, not yet handled
    tasks,        \* onmessage invocations suspended at an await
    outbox,       \* messages the worker posted, not yet handled by the main thread
    \* bookkeeping the code does not hold, for stating the properties
    log,          \* one record per finished onmessage invocation, in the order they finished
    nextId,       \* messages posted to the worker so far
    created,      \* sessions created so far
    faulted,      \* sessions whose run has thrown
    recording,    \* whether finished invocations are recorded in log
    \* the component (BirdNestDetector.tsx)
    imageUrl,     \* 0 is '', 1 the demo image, 2 a dropped file
    detections, isProcessing, error, confidenceThreshold, isModelLoaded, workerReady,
    readers,      \* FileReader loads under way (handleImageDrop)
    preprocessing,\* handleDetect invocations suspended at await preprocessImage
    overlay,      \* the detections whose boxes are on the canvas
    loadPending,  \* whether the <img> is loading a new src (its onLoad has not fired)
    \* bookkeeping the code does not hold
    detectionsOf, \* the image the stored detections were computed from (0: none stored)
    postedShown,  \* whether the last RUN_INFERENCE was posted while its image was still shown
    clicks        \* detect clicks so far

decodeVars == <<input, size, phase, utilDets, workerDets>>
workerVars == <<session, inbox, tasks, outbox, log, nextId, created, faulted, recording>>
uiVars == <<imageUrl, detections, isProcessing, error, confidenceThreshold, isModelLoaded,
            workerReady, readers, preprocessing, overlay, loadPending, detectionsOf,
            postedShown, clicks>>

VARIABLES
    \* one call of preprocessImage(imageSrc, modelWidth, modelHeight) and the input
    \* tensor runInference builds from what it resolves with
    stage,        \* "idle", "loading", "loop", "resolved", "fed"; rejected: "noContext", "loadFailed"
    imageSrc, modelWidth, modelHeight,
    canvasData,   \* ctx.getImageData(0, 0, modelWidth, modelHeight).data, RGBA bytes
    tensor,       \* the Float32Array being filled, each value a fraction <<byte, 255>>
    cursor,       \* pixels the two loops have done
    resolved,     \* the PreprocessedImageData the promise resolved with
    feed,         \* the input tensor and the decoder arguments of runInference
    \* bookkeeping the code does not hold
    writes        \* how often each index of tensor has been assigned

preVars == <<stage, imageSrc, modelWidth, modelHeight, canvasData, tensor, cursor, resolved,
             feed, writes>>
vars == <<decodeVars, workerVars, uiVars, preVars>>

\* ---------------------------------------------------- generated tensors
Vals == {0, Scale \div 2, Scale}
Thresholds == {0, Scale \div 4, Scale \div 2, Scale}

\* the images the component can hold and their natural sizes
DemoImage == 1
DroppedImage == 2
NaturalSize(img) == IF img = DemoImage THEN <<1000, 500>> ELSE <<320, 480>>

\* what preprocessImage(imageUrl) resolves with, but for the pixel buffer
Preprocessed(img) ==
    [originalWidth |-> NaturalSize(img)[1], originalHeight |-> NaturalSize(img)[2],
     width |-> ModelSize, height |-> ModelSize]

Geoms == { Preprocessed(DemoImage),
           [originalWidth |-> 320, originalHeight |-> 480, width |-> 320, height |-> 160] }

Shapes ==
    {<<b, n, k>> : b \in 1..2, n \in 1..MaxN, k \in (ClassOffset - 1)..(ClassOffset + 2)}
      \cup {<<1, DirectChannels, n>> : n \in {1, MaxN, ClassOffset + 1}}
      \cup {<<1, c, h, w>> : c \in (ClassOffset - 1)..(ClassOffset + 2), h \in 1..MaxN, w \in 1..MaxN}
      \cup {<<l>> : l \in {BoxSize - 1, BoxSize, 2 * BoxSize, 2 * BoxSize + 1}}
      \cup {<<1, 2 * BoxSize>>, <<2, BoxSize>>}

\* a tensor whose buffer length is the product of its shape, filled periodically from seed
Generated(dims, seed) ==
    [dims |-> dims, data |-> [i \in 1..Product(dims) |-> seed[((i - 1) % SeedLen) + 1]]]

GeneratedTensors == {Generated(dims, seed) : dims \in Shapes, seed \in [1..SeedLen -> Vals]}

\* one candidate in model-input pixels, [cx, cy, w, h, confidence, class], and the same
\* with a class value below zero
GeometryRecord == <<320 * Scale, 320 * Scale, 64 * Scale, 64 * Scale, Scale, Scale>>
NegativeClassRecord == <<320 * Scale, 320 * Scale, 64 * Scale, 64 * Scale, Scale, 0 - Scale>>

\* the record laid out for each branch of the decoders (channels past the record are 0)
GeometryTensors ==
    { [dims |-> <<1, 1, BoxSize>>, data |-> GeometryRecord],
      [dims |-> <<1, BoxSize, 1, 1>>, data |-> GeometryRecord],
      [dims |-> <<1, DirectChannels, 1>>,
       data |-> [i \in 1..DirectChannels |-> IF i <= BoxSize THEN GeometryRecord[i] ELSE 0]],
      [dims |-> <<BoxSize>>, data |-> GeometryRecord],
      [dims |-> <<1, 1, ClassOffset>>, data |-> SubSeq(GeometryRecord, 1, ClassOffset)] }

SampleTensors ==
    GeometryTensors \cup { [dims |-> <<BoxSize>>, data |-> NegativeClassRecord],
                           [dims |-> <<1, 1, BoxSize>>, data |-> NegativeClassRecord] }

NoTensor == [dims |-> <<>>, data |-> <<>>]
NoDets == [t \in Thresholds |-> <<>>]

DecodeIdle ==
    /\ input = NoTensor
    /\ size = Preprocessed(DemoImage)
    /\ phase = "idle"
    /\ utilDets = NoDets
    /\ workerDets = NoDets

UIIdle ==
    /\ imageUrl = 0
    /\ detections = <<>>
    /\ isProcessing = FALSE
    /\ error = ""
    /\ confidenceThreshold = InitialThreshold
    /\ isModelLoaded = FALSE
    /\ workerReady = FALSE
    /\ readers = {}
    /\ preprocessing = {}
    /\ overlay = <<>>
    /\ loadPending = FALSE
    /\ detectionsOf = 0
    /\ postedShown = FALSE
    /\ clicks = 0

WorkerIdle ==
    /\ session = 0
    /\ inbox = <<>>
    /\ tasks = {}
    /\ outbox = <<>>
    /\ log = <<>>
    /\ nextId = 0
    /\ created = 0
    /\ faulted = {}
    /\ recording = TRUE

NoImageData == [tensor |-> <<>>, width |-> 0, height |-> 0, originalWidth |-> 0, originalHeight |-> 0]
NoFeed == [dims |-> <<>>, data |-> <<>>, originalWidth |-> 0, originalHeight |-> 0,
           modelWidth |-> 0, modelHeight |-> 0]

PreIdle ==
    /\ stage = "idle"
    /\ imageSrc = 0
    /\ modelWidth = 0
    /\ modelHeight = 0
    /\ canvasData = <<>>
    /\ tensor = <<>>
    /\ cursor = 0
    /\ resolved = NoImageData
    /\ feed = NoFeed
    /\ writes = <<>>

InitDecode ==
    /\ input \in GeneratedTensors \cup SampleTensors
    /\ size \in Geoms
    /\ phase = "input"
    /\ utilDets = NoDets
    /\ workerDets = NoDets
    /\ WorkerIdle
    /\ UIIdle
    /\ PreIdle

Decode ==
    /\ phase = "input"
    /\ phase' = "decoded"
    /\ utilDets' = [t \in Thresholds |-> UtilProcessYoloOutput(input, size, t)]
    /\ workerDets' = [t \in Thresholds |-> WorkerProcessYoloOutput(input, size, t)]
    /\ UNCHANGED <<input, size>>
    /\ UNCHANGED <<workerVars, uiVars, preVars>>

NextDecode == Decode

SpecDecode == InitDecode /\ [][NextDecode]_vars

\* ------------------------------------------------------------ worker
\* what session.run can resolve with: the first output of the model, or no output
SampleRows ==
    [dims |-> <<1, 2, 6>>,
     data |-> <<10 * Scale, 10 * Scale, 2 * Scale, 2 * Scale, Scale, Scale,
                4 * Scale, 4 * Scale, 2 * Scale, 2 * Scale, Scale \div 2, Scale \div 2>>]
SampleGrid ==
    [dims |-> <<1, 6, 1, 1>>,
     data |-> <<10 * Scale, 10 * Scale, 2 * Scale, 2 * Scale, Scale, Scale>>]
\* two rows with the same box, both above every threshold used
SampleTwins ==
    [dims |-> <<1, 2, 6>>,
     data |-> <<10 * Scale, 10 * Scale, 2 * Scale, 2 * Scale, Scale, Scale,
                10 * Scale, 10 * Scale, 2 * Scale, 2 * Scale, Scale, Scale>>]
RunOutputs == {SampleRows, SampleTwins, SampleGrid, NoTensor}

\* event.data.confidenceThreshold || 0.25
OrDefault(v, d) == IF ~IsNum(v) \/ v = 0 THEN d ELSE v

NoImage == [present |-> FALSE, img |-> 0, geom |-> Preprocessed(DemoImage)]
ImageData(img, g) == [present |-> TRUE, img |-> img, geom |-> g]

MessageIn(id, type, modelUrl, imageData, threshold, iou) ==
    [id |-> id, type |-> type, modelUrl |-> modelUrl, imageData |-> imageData,
     confidenceThreshold |-> threshold, iouThreshold |-> iou]

MessageOut(type, dets, err, req, img) ==
    [type |-> type, detections |-> dets, error |-> err,
     req |-> req, img |-> img]     \* req, img: which request this answers (not in the real message)

\* the two checks at the head of case 'RUN_INFERENCE'; "" when both pass
RunGuardSwapped(sess, msg) ==
    IF ~msg.imageData.present THEN "Image data is required"
    ELSE IF sess = 0 THEN "Model is not loaded"
    ELSE ""

RunGuard(sess, msg) ==
    IF sess = 0 THEN "Model is not loaded"
    ELSE IF ~msg.imageData.present THEN "Image data is required"
    ELSE ""

Loading == \E k \in tasks : k.kind = "create"

Entry(msg, resp, err, cause, sess, loading, wasFaulted, runs) ==
    [id |-> msg.id, type |-> msg.type, resp |-> resp, error |-> err, cause |-> cause,
     sess |-> sess, loading |-> loading, wasFaulted |-> wasFaulted, runs |-> runs,
     \* filled in for an INFERENCE_RESULT: what was decoded, with what, into what
     output |-> NoTensor, geom |-> msg.imageData.geom, confidenceThreshold |-> Undefined,
     iouThreshold |-> Undefined, detections |-> <<>>,
     \* event.data.confidenceThreshold, as the message carried it
     requested |-> msg.confidenceThreshold]

\* a run that removes a detection whose box an earlier one already has (suppression
\* at any overlap threshold below 1)
runInferenceSuppressing(output, imageData, threshold, iou) ==
    LET all == WorkerProcessYoloOutput(output, imageData.geom, threshold)
        firstOfItsBox(k) == \A j \in 1..(k - 1) : all[j].bbox # all[k].bbox
    IN  IF JsLt(iou, Scale)
        THEN Flatten([k \in 1..Len(all) |-> IF firstOfItsBox(k) THEN <<all[k]>> ELSE <<>>])
        ELSE all

\* runInference after session.run has resolved with output: processYoloOutput(output,
\* imageData.originalWidth, ..., imageData.height, confidenceThreshold); iouThreshold is not passed on
runInference(output, imageData, threshold, iou) ==
    WorkerProcessYoloOutput(output, imageData.geom, threshold)

\* log with the finished invocation e added, where invocations are recorded
Record(l, e) == IF recording THEN Append(l, e) ELSE l

\* the catch block: post an ERROR carrying error.message
ReplyError(msg, err, cause, sess, loading, wasFaulted, runs) ==
    /\ outbox' = Append(outbox, MessageOut("ERROR", <<>>, err, msg.id, msg.imageData.img))
    /\ log' = Record(log, Entry(msg, "ERROR", err, cause, sess, loading, wasFaulted, runs))

\* self.onmessage up to its first await (or to its end, when it throws before)
OnMessage ==
    /\ inbox # <<>>
    /\ LET msg == Head(inbox)
           guard == RunGuard(session, msg)
       IN  /\ inbox' = Tail(inbox)
           /\ IF msg.type = "LOAD_MODEL" /\ msg.modelUrl
              THEN /\ tasks' = tasks \cup {[kind |-> "create", msg |-> msg, sess |-> session,
                                            loading |-> Loading, wasFaulted |-> FALSE,
                                            confidenceThreshold |-> Undefined,
                                            iouThreshold |-> Undefined]}
                   /\ UNCHANGED <<outbox, log>>
              ELSE IF msg.type = "LOAD_MODEL"
              THEN /\ ReplyError(msg, "Model URL is required", "guard", session, Loading, FALSE, 0)
                   /\ UNCHANGED tasks
              ELSE IF msg.type = "RUN_INFERENCE" /\ guard = ""
              THEN /\ tasks' = tasks \cup {[kind |-> "run", msg |-> msg, sess |-> session,
                                            loading |-> Loading, wasFaulted |-> session \in faulted,
                                            confidenceThreshold |->
                                                OrDefault(msg.confidenceThreshold, DefaultConfidence),
                                            iouThreshold |->
                                                OrDefault(msg.iouThreshold, DefaultIou)]}
                   /\ UNCHANGED <<outbox, log>>
              ELSE IF msg.type = "RUN_INFERENCE"
              THEN /\ ReplyError(msg, guard, "guard", session, Loading, session \in faulted, 0)
                   /\ UNCHANGED tasks
              ELSE /\ ReplyError(msg, "Unknown message type", "guard", session, Loading, FALSE, 0)
                   /\ UNCHANGED tasks
    /\ UNCHANGED <<session, nextId, created, faulted, recording>>
    /\ UNCHANGED <<decodeVars, uiVars, preVars>>

\* ort.InferenceSession.create resolves: session = ...; postMessage(MODEL_LOADED)
CreateResolves ==
    \E k \in tasks :
        /\ k.kind = "create"
        /\ tasks' = tasks \ {k}
        /\ created' = created + 1
        /\ session' = created + 1
        /\ outbox' = Append(outbox, MessageOut("MODEL_LOADED", <<>>, "", k.msg.id, 0))
        /\ log' = Record(log, Entry(k.msg, "MODEL_LOADED", "", "none", k.sess, k.loading, FALSE, 0))
        /\ UNCHANGED <<inbox, nextId, faulted, recording>>
        /\ UNCHANGED <<decodeVars, uiVars, preVars>>
    /\ UNCHANGED <<decodeVars, uiVars, preVars>>

\* a catch block that also drops the session
CreateRejectsClearing ==
    \E k \in tasks :
        /\ k.kind = "create"
        /\ tasks' = tasks \ {k}
        /\ session' = 0
        /\ ReplyError(k.msg, "create failed", "create", k.sess, k.loading, FALSE, 0)
        /\ UNCHANGED <<inbox, nextId, created, faulted, recording>>
        /\ UNCHANGED <<decodeVars, uiVars, preVars>>

\* ort.InferenceSession.create rejects: the catch block
CreateRejects ==
    \E k \in tasks :
        /\ k.kind = "create"
        /\ tasks' = tasks \ {k}
        /\ ReplyError(k.msg, "create failed", "create", k.sess, k.loading, FALSE, 0)
        /\ UNCHANGED <<session, inbox, nextId, created, faulted, recording>>
        /\ UNCHANGED <<decodeVars, uiVars, preVars>>
    /\ UNCHANGED <<decodeVars, uiVars, preVars>>

\* session.run resolves: runInference returns processYoloOutput(...), or throws on no output
RunResolves ==
    \E k \in tasks, output \in RunOutputs :
        /\ k.kind = "run"
        /\ tasks' = tasks \ {k}
        /\ IF output = NoTensor
           THEN ReplyError(k.msg, "Model output is undefined", "output", k.sess, k.loading, k.wasFaulted, 1)
           ELSE LET dets == runInference(output, k.msg.imageData, k.confidenceThreshold, k.iouThreshold)
                    entry == Entry(k.msg, "INFERENCE_RESULT", "",
                                   IF WorkerLayout(output.dims) = "none" THEN "decode" ELSE "none",
                                   k.sess, k.loading, k.wasFaulted, 1)
                IN  /\ outbox' = Append(outbox, MessageOut("INFERENCE_RESULT", dets, "",
                                                          k.msg.id, k.msg.imageData.img))
                    /\ log' = Record(log, [entry EXCEPT !.output = output,
                                                        !.confidenceThreshold = k.confidenceThreshold,
                                                        !.iouThreshold = k.iouThreshold,
                                                        !.detections = dets])
        /\ UNCHANGED <<session, inbox, nextId, created, faulted, recording>>
        /\ UNCHANGED <<decodeVars, uiVars, preVars>>
    /\ UNCHANGED <<decodeVars, uiVars, preVars>>

\* session.run rejects: the catch block
RunRejects ==
    \E k \in tasks :
        /\ k.kind = "run"
        /\ tasks' = tasks \ {k}
        /\ faulted' = faulted \cup {k.sess}
        /\ ReplyError(k.msg, "run failed", "run", k.sess, k.loading, k.wasFaulted, 1)
        /\ UNCHANGED <<session, inbox, nextId, created, recording>>
        /\ UNCHANGED <<decodeVars, uiVars, preVars>>
    /\ UNCHANGED <<decodeVars, uiVars, preVars>>

\* ------------------------------------------- a client of the worker
ClientMessages(id) ==
    {MessageIn(id, "LOAD_MODEL", url, NoImage, Undefined, Undefined) : url \in BOOLEAN}
      \cup {MessageIn(id, "RUN_INFERENCE", FALSE, ImageData(DemoImage, Preprocessed(DemoImage)), t, Undefined) :
                t \in {Undefined, 0, Scale \div 2}}
      \cup {MessageIn(id, "RUN_INFERENCE", FALSE, ImageData(DemoImage, Preprocessed(DemoImage)),
                      Scale \div 2, Scale \div 4)}
      \cup {MessageIn(id, "RUN_INFERENCE", FALSE, NoImage, Undefined, Undefined),
            MessageIn(id, "UNKNOWN", FALSE, NoImage, Undefined, Undefined)}

\* worker.postMessage(...)
Post ==
    /\ nextId < MaxMsgs
    /\ \E m \in ClientMessages(nextId + 1) : inbox' = Append(inbox, m)
    /\ nextId' = nextId + 1
    /\ UNCHANGED <<session, tasks, outbox, log, created, faulted, recording>>
    /\ UNCHANGED <<decodeVars, uiVars, preVars>>

\* the client's onmessage takes the next message the worker posted
ClientReceive ==
    /\ outbox # <<>>
    /\ outbox' = Tail(outbox)
    /\ UNCHANGED <<session, inbox, tasks, log, nextId, created, faulted, recording>>
    /\ UNCHANGED <<decodeVars, uiVars, preVars>>

Init == DecodeIdle /\ WorkerIdle /\ UIIdle /\ PreIdle

Next ==
    \/ Post
    \/ ClientReceive
    \/ OnMessage
    \/ CreateResolves
    \/ CreateRejects
    \/ RunResolves
    \/ RunRejects

Spec == Init /\ [][Next]_vars

\* --------------------------------------------------------- component
SliderValues == {0, InitialThreshold, Scale \div 2}

\* drawDetections(canvas, detections, threshold): the boxes it puts on the cleared canvas
drawDetections(dets, threshold) ==
    Flatten([k \in 1..Len(dets) |->
                IF JsGe(dets[k].score, ScoreUnits(threshold)) THEN <<dets[k]>> ELSE <<>>])

\* drawDetectionsOnCanvas(dets) in a closure that holds confidenceThreshold = threshold;
\* it returns at once while no canvas and image are rendered
drawDetectionsOnCanvas(dets, threshold) ==
    IF imageUrl = 0 THEN overlay ELSE drawDetections(dets, threshold)

\* the image is replaced or removed: setImageUrl(...); setDetections([]); the canvas
\* goes with the image, and an <img> given another src loads it
SetImage(img) ==
    /\ imageUrl' = img
    /\ detections' = <<>>
    /\ detectionsOf' = 0
    /\ overlay' = (IF img = 0 THEN <<>> ELSE overlay)
    /\ loadPending' = (IF img = 0 THEN FALSE ELSE IF img # imageUrl THEN TRUE ELSE loadPending)

handleExampleClick ==
    /\ SetImage(DemoImage)
    /\ UNCHANGED <<isProcessing, error, confidenceThreshold, isModelLoaded, workerReady,
                   readers, preprocessing, clicks, postedShown>>
    /\ UNCHANGED <<decodeVars, workerVars, preVars>>

handleImageDrop ==
    /\ readers' = readers \cup {DroppedImage}
    /\ UNCHANGED <<imageUrl, detections, detectionsOf, isProcessing, error, confidenceThreshold,
                   isModelLoaded, workerReady, preprocessing, clicks, postedShown,
                   overlay, loadPending>>
    /\ UNCHANGED <<decodeVars, workerVars, preVars>>

\* reader.onload
ReaderOnload ==
    \E f \in readers :
        /\ readers' = readers \ {f}
        /\ SetImage(f)
        /\ UNCHANGED <<isProcessing, error, confidenceThreshold, isModelLoaded, workerReady,
                       preprocessing, clicks, postedShown>>
        /\ UNCHANGED <<decodeVars, workerVars, preVars>>

\* the remove button, rendered while an image is shown
RemoveImage ==
    /\ imageUrl # 0
    /\ SetImage(0)
    /\ UNCHANGED <<isProcessing, error, confidenceThreshold, isModelLoaded, workerReady,
                   readers, preprocessing, clicks, postedShown>>
    /\ UNCHANGED <<decodeVars, workerVars, preVars>>

\* the <img>'s onLoad: the canvas is sized (which clears it) and the image drawn on it;
\* if (detections.length > 0) drawDetectionsOnCanvas(detections), in this render's closure
handleImageLoad ==
    /\ loadPending
    /\ loadPending' = FALSE
    /\ overlay' = (IF Len(detections) > 0
                   THEN drawDetectionsOnCanvas(detections, confidenceThreshold)
                   ELSE <<>>)
    /\ UNCHANGED <<imageUrl, detections, detectionsOf, isProcessing, error, confidenceThreshold,
                   isModelLoaded, workerReady, readers, preprocessing, clicks, postedShown>>
    /\ UNCHANGED <<decodeVars, workerVars, preVars>>

\* the slider, rendered while an image is shown
handleThresholdChange ==
    /\ imageUrl # 0
    /\ \E value \in SliderValues : confidenceThreshold' = value
    \* if (detections.length > 0) drawDetectionsOnCanvas(detections), in this render's closure
    /\ overlay' = (IF Len(detections) > 0
                   THEN drawDetectionsOnCanvas(detections, confidenceThreshold)
                   ELSE overlay)
    /\ UNCHANGED <<imageUrl, detections, detectionsOf, isProcessing, error, isModelLoaded,
                   workerReady, readers, preprocessing, clicks, postedShown, loadPending>>
    /\ UNCHANGED <<decodeVars, workerVars, preVars>>

\* a click that is accepted while a detection is under way
handleDetectWhileProcessing ==
    /\ clicks < MaxClicks
    /\ ~(imageUrl = 0 \/ ~isModelLoaded)
    /\ ~(imageUrl = 0 \/ ~workerReady)
    /\ isProcessing' = TRUE
    /\ error' = ""
    /\ preprocessing' = preprocessing \cup {[img |-> imageUrl, confidenceThreshold |-> confidenceThreshold]}
    /\ clicks' = clicks + 1
    /\ UNCHANGED <<imageUrl, detections, detectionsOf, confidenceThreshold, isModelLoaded,
                   workerReady, readers, postedShown, overlay, loadPending>>
    /\ UNCHANGED <<decodeVars, workerVars, preVars>>

\* a click on the Detect button (disabled={!imageUrl || isProcessing || !isModelLoaded}),
\* handleDetect up to await preprocessImage(imageUrl)
handleDetect ==
    /\ clicks < MaxClicks
    /\ ~(imageUrl = 0 \/ isProcessing \/ ~isModelLoaded)
    /\ ~(imageUrl = 0 \/ ~workerReady)
    /\ isProcessing' = TRUE
    /\ error' = ""
    /\ preprocessing' = preprocessing \cup {[img |-> imageUrl, confidenceThreshold |-> confidenceThreshold]}
    /\ clicks' = clicks + 1
    /\ UNCHANGED <<imageUrl, detections, detectionsOf, confidenceThreshold, isModelLoaded,
                   workerReady, readers, postedShown, overlay, loadPending>>
    /\ UNCHANGED <<decodeVars, workerVars, preVars>>

\* preprocessImage resolves: workerRef.current.postMessage({type: 'RUN_INFERENCE', ...})
PreprocessResolves ==
    \E p \in preprocessing :
        /\ preprocessing' = preprocessing \ {p}
        /\ inbox' = Append(inbox, MessageIn(nextId + 1, "RUN_INFERENCE", FALSE,
                                            ImageData(p.img, Preprocessed(p.img)),
                                            p.confidenceThreshold, Undefined))
        /\ nextId' = nextId + 1
        /\ postedShown' = (imageUrl = p.img)
        /\ UNCHANGED <<imageUrl, detections, detectionsOf, isProcessing, error, confidenceThreshold,
                       isModelLoaded, workerReady, readers, clicks, overlay, loadPending>>
        /\ UNCHANGED <<session, tasks, outbox, log, created, faulted, recording>>
        /\ UNCHANGED <<decodeVars, preVars>>

\* preprocessImage rejects: the catch block of handleDetect
PreprocessRejects ==
    \E p \in preprocessing :
        /\ preprocessing' = preprocessing \ {p}
        /\ error' = "Failed to load image"
        /\ isProcessing' = FALSE
        /\ UNCHANGED <<imageUrl, detections, detectionsOf, confidenceThreshold, isModelLoaded,
                       workerReady, readers, clicks, postedShown, overlay, loadPending>>
        /\ UNCHANGED <<decodeVars, workerVars, preVars>>

\* an onmessage whose ERROR case leaves isProcessing as it is
UIOnMessageErrorKeepsBusy ==
    /\ outbox # <<>>
    /\ LET data == Head(outbox)
       IN  /\ outbox' = Tail(outbox)
           /\ IF data.type = "MODEL_LOADED"
              THEN /\ isModelLoaded' = TRUE
                   /\ workerReady' = TRUE
                   /\ UNCHANGED <<detections, detectionsOf, isProcessing, error, overlay>>
              ELSE IF data.type = "INFERENCE_RESULT"
              THEN /\ detections' = data.detections
                   /\ detectionsOf' = data.img
                   \* drawDetectionsOnCanvas of the render the effect ran in: the first
                   /\ overlay' = drawDetectionsOnCanvas(data.detections, InitialThreshold)
                   /\ isProcessing' = FALSE
                   /\ UNCHANGED <<isModelLoaded, workerReady, error>>
              ELSE /\ error' = (IF data.error # "" THEN data.error ELSE "An unknown error occurred")
                   /\ UNCHANGED <<isModelLoaded, workerReady, detections, detectionsOf, isProcessing,
                                  overlay>>
    /\ UNCHANGED <<imageUrl, confidenceThreshold, readers, preprocessing, clicks, postedShown,
                   loadPending>>
    /\ UNCHANGED <<session, inbox, tasks, log, nextId, created, faulted, recording>>
    /\ UNCHANGED <<decodeVars, preVars>>

\* worker.onmessage
UIOnMessage ==
    /\ outbox # <<>>
    /\ LET data == Head(outbox)
       IN  /\ outbox' = Tail(outbox)
           /\ IF data.type = "MODEL_LOADED"
              THEN /\ isModelLoaded' = TRUE
                   /\ workerReady' = TRUE
                   /\ UNCHANGED <<detections, detectionsOf, isProcessing, error, overlay>>
              ELSE IF data.type = "INFERENCE_RESULT"
              THEN /\ detections' = data.detections
                   /\ detectionsOf' = data.img
                   \* drawDetectionsOnCanvas of the render the effect ran in: the first
                   /\ overlay' = drawDetectionsOnCanvas(data.detections, InitialThreshold)
                   /\ isProcessing' = FALSE
                   /\ UNCHANGED <<isModelLoaded, workerReady, error>>
              ELSE /\ error' = (IF data.error # "" THEN data.error ELSE "An unknown error occurred")
                   /\ isProcessing' = FALSE
                   /\ UNCHANGED <<isModelLoaded, workerReady, detections, detectionsOf, overlay>>
    /\ UNCHANGED <<imageUrl, confidenceThreshold, readers, preprocessing, clicks, postedShown,
                   loadPending>>
    /\ UNCHANGED <<session, inbox, tasks, log, nextId, created, faulted, recording>>
    /\ UNCHANGED <<decodeVars, preVars>>

\* useEffect on mount: the worker is created and LOAD_MODEL is posted
InitUI ==
    /\ DecodeIdle
    /\ UIIdle
    /\ PreIdle
    /\ session = 0
    /\ inbox = <<MessageIn(1, "LOAD_MODEL", TRUE, NoImage, Undefined, Undefined)>>
    /\ tasks = {}
    /\ outbox = <<>>
    /\ log = <<>>
    /\ nextId = 1
    /\ created = 0
    /\ faulted = {}
    /\ recording = FALSE

NextUI ==
    \/ handleExampleClick
    \/ handleImageDrop
    \/ ReaderOnload
    \/ RemoveImage
    \/ handleImageLoad
    \/ handleThresholdChange
    \/ handleDetect
    \/ PreprocessResolves
    \/ PreprocessRejects
    \/ UIOnMessage
    \/ OnMessage
    \/ CreateResolves
    \/ CreateRejects
    \/ RunResolves
    \/ RunRejects

SpecUI == InitUI /\ [][NextUI]_vars

\* the component with its promises and message queues making progress: an image load
\* settles, a posted message is handled, session.run settles
SpecUILive ==
    /\ SpecUI
    /\ WF_vars(PreprocessResolves)
    /\ WF_vars(OnMessage)
    /\ WF_vars(RunResolves)
    /\ WF_vars(UIOnMessage)

\* ------------------------------------------------------- preprocessing
Bytes == {0, 128, MaxByte}
Sides == 1..MaxSide

\* the RGBA bytes of a modelWidth x modelHeight canvas, filled periodically from seed
CanvasBytes(w, h, seed) == [i \in 1..(4 * w * h) |-> seed[((i - 1) % PixelPeriod) + 1]]

\* data[...] / 255.0 with another divisor
NormalizeBy128(byte) == <<byte, 128>>

\* data[...] / 255.0, as the fraction <<numerator, denominator>>
Normalize(byte) == <<byte, MaxByte>>

\* the index of pixel (y, x), channel c, in height-width-channel order
HwcIndex(c, y, x, w, h) == (y * w + x) * 3 + c

\* c * modelHeight * modelWidth + y * modelWidth + x
ChwIndex(c, y, x, w, h) == c * h * w + y * w + x

\* the shape with width and height exchanged
InputDimsSwapped(imageData) == <<1, 3, imageData.width, imageData.height>>

\* [1, 3, imageData.height, imageData.width]
InputDims(imageData) == <<1, 3, imageData.height, imageData.width>>

InitPreprocess ==
    /\ stage = "loading"
    /\ imageSrc \in {DemoImage, DroppedImage}
    /\ modelWidth \in Sides
    /\ modelHeight \in Sides
    /\ canvasData = <<>>
    /\ tensor = <<>>
    /\ cursor = 0
    /\ resolved = NoImageData
    /\ feed = NoFeed
    /\ writes = <<>>
    /\ DecodeIdle
    /\ WorkerIdle
    /\ UIIdle

\* img.onload up to the loops: the canvas is drawn and read, the Float32Array allocated
ImageOnload ==
    /\ stage = "loading"
    /\ \E seed \in [1..PixelPeriod -> Bytes] :
           canvasData' = CanvasBytes(modelWidth, modelHeight, seed)
    /\ tensor' = [i \in 1..(3 * modelHeight * modelWidth) |-> <<0, 1>>]
    /\ writes' = [i \in 1..(3 * modelHeight * modelWidth) |-> 0]
    /\ cursor' = 0
    /\ stage' = "loop"
    /\ UNCHANGED <<imageSrc, modelWidth, modelHeight, resolved, feed>>
    /\ UNCHANGED <<decodeVars, workerVars, uiVars>>

\* canvas.getContext("2d") gives null: reject(new Error("Could not get canvas context"))
ContextMissing ==
    /\ stage = "loading"
    /\ stage' = "noContext"
    /\ UNCHANGED <<imageSrc, modelWidth, modelHeight, canvasData, tensor, cursor, resolved, feed, writes>>
    /\ UNCHANGED <<decodeVars, workerVars, uiVars>>

\* one iteration of the inner loop: pixel (y, x) is normalised and stored per channel
CopyPixel ==
    /\ stage = "loop"
    /\ cursor < modelHeight * modelWidth
    /\ LET y == cursor \div modelWidth
           x == cursor % modelWidth
           pixelIndex == (y * modelWidth + x) * 4
           r == Normalize(canvasData[pixelIndex + 1])
           g == Normalize(canvasData[pixelIndex + 1 + 1])
           b == Normalize(canvasData[pixelIndex + 2 + 1])
           ri == ChwIndex(0, y, x, modelWidth, modelHeight) + 1
           gi == ChwIndex(1, y, x, modelWidth, modelHeight) + 1
           bi == ChwIndex(2, y, x, modelWidth, modelHeight) + 1
           \* an assignment past the end of a typed array is ignored
           put(buf, i, v) == IF i \in DOMAIN buf THEN [buf EXCEPT ![i] = v] ELSE buf
           count(w, i) == IF i \in DOMAIN w THEN [w EXCEPT ![i] = @ + 1] ELSE w
       IN  /\ tensor' = put(put(put(tensor, ri, r), gi, g), bi, b)
           /\ writes' = count(count(count(writes, ri), gi), bi)
    /\ cursor' = cursor + 1
    /\ UNCHANGED <<stage, imageSrc, modelWidth, modelHeight, canvasData, resolved, feed>>
    /\ UNCHANGED <<decodeVars, workerVars, uiVars>>

\* resolve({tensor, width, height, originalWidth, originalHeight})
PreprocessDone ==
    /\ stage = "loop"
    /\ cursor = modelHeight * modelWidth
    /\ resolved' = [tensor |-> tensor, width |-> modelWidth, height |-> modelHeight,
                    originalWidth |-> NaturalSize(imageSrc)[1],
                    originalHeight |-> NaturalSize(imageSrc)[2]]
    /\ stage' = "resolved"
    /\ UNCHANGED <<imageSrc, modelWidth, modelHeight, canvasData, tensor, cursor, feed, writes>>
    /\ UNCHANGED <<decodeVars, workerVars, uiVars>>

\* img.onerror: reject(new Error("Failed to load image"))
ImageOnerror ==
    /\ stage = "loading"
    /\ stage' = "loadFailed"
    /\ UNCHANGED <<imageSrc, modelWidth, modelHeight, canvasData, tensor, cursor, resolved, feed, writes>>
    /\ UNCHANGED <<decodeVars, workerVars, uiVars>>

\* runInference: new ort.Tensor('float32', imageData.tensor, [1, 3, height, width]) and
\* the arguments processYoloOutput is called with
BuildInput ==
    /\ stage = "resolved"
    /\ LET imageData == resolved
       IN  feed' = [dims |-> InputDims(imageData), data |-> imageData.tensor,
                    originalWidth |-> imageData.originalWidth,
                    originalHeight |-> imageData.originalHeight,
                    modelWidth |-> imageData.width, modelHeight |-> imageData.height]
    /\ stage' = "fed"
    /\ UNCHANGED <<imageSrc, modelWidth, modelHeight, canvasData, tensor, cursor, resolved, writes>>
    /\ UNCHANGED <<decodeVars, workerVars, uiVars>>

NextPreprocess ==
    \/ ImageOnload
    \/ ContextMissing
    \/ ImageOnerror
    \/ CopyPixel
    \/ PreprocessDone
    \/ BuildInput

SpecPreprocess == InitPreprocess /\ [][NextPreprocess]_vars

\* ============================================================ properties
Range(f) == {f[x] : x \in DOMAIN f}
MaxOf(S) == CHOOSE m \in S : \A x \in S : x <= m

\* the position in b after matching a[lo..hi] greedily, left to right, from position j
\* of b on; Len(b) + 2 when some element finds no match
RECURSIVE MatchRange(_, _, _, _, _)
MatchRange(a, lo, hi, b, j) ==
    IF lo > hi THEN j
    ELSE IF j > Len(b) THEN Len(b) + 2
    ELSE IF lo = hi
         THEN IF \E k \in j..Len(b) : b[k] = a[lo]
              THEN (CHOOSE k \in j..Len(b) : b[k] = a[lo] /\ \A x \in j..(k - 1) : b[x] # a[lo]) + 1
              ELSE Len(b) + 2
    ELSE LET mid == (lo + hi) \div 2
             reached == MatchRange(a, lo, mid, b, j)
         IN  MatchRange(a, mid + 1, hi, b, reached)

\* a can be obtained from b by deleting elements
IsSubSeq(a, b) == MatchRange(a, 1, Len(a), b, 1) <= Len(b) + 1

RunEntries == {i \in 1..Len(log) : log[i].type = "RUN_INFERENCE"}
RunsInFlight == {k \in tasks : k.kind = "run"}

\* C1: a RUN_INFERENCE handled while session is null (no load has completed, a load
\* may be under way) is answered with ERROR 'Model is not loaded', never with an
\* INFERENCE_RESULT, and starts no session.run.
C1_NotLoadedIsAnError ==
    /\ \A i \in RunEntries :
           log[i].sess = 0 => log[i].resp = "ERROR" /\ log[i].error = "Model is not loaded"
    /\ \A k \in RunsInFlight : k.sess # 0

\* C1 happens: a RUN_INFERENCE was answered while LOAD_MODEL was awaiting the session
C1_Witness ==
    \E i \in RunEntries : log[i].sess = 0 /\ log[i].loading /\ log[i].resp = "ERROR"

\* C2: RUN_INFERENCE requests get one response each, and the responses are posted in
\* the order the requests were issued, whatever order the session.run calls finish in.
C2_ResponsesInRequestOrder ==
    /\ \A i, j \in RunEntries : i < j => log[i].id < log[j].id
    /\ \A i, j \in 1..Len(log) : log[i].id = log[j].id => i = j

\* C3: at most one session.run has started and not yet finished.
C3_OneInferenceInFlight == Cardinality(RunsInFlight) <= 1

\* C4: once session.run has thrown on the session, every RUN_INFERENCE handled later
\* on that session (no LOAD_MODEL succeeded in between) is answered with ERROR.
C4_FailedStaysFailed ==
    \A i \in RunEntries : log[i].wasFaulted => log[i].resp = "ERROR"

\* C5: every message handled gets exactly one reply, which is ERROR exactly when
\* something failed (a failed decode included), and a RUN_INFERENCE calls session.run
\* at most once.
C5_OneReplyErrorOnFailure ==
    /\ \A i, j \in 1..Len(log) : log[i].id = log[j].id => i = j
    /\ Len(log) + Len(inbox) + Cardinality(tasks) = nextId
    /\ \A i \in 1..Len(log) : log[i].runs <= 1
    /\ \A i \in 1..Len(log) : (log[i].resp = "ERROR") <=> (log[i].cause # "none")

\* C6: a result whose image was replaced or removed after its RUN_INFERENCE was posted
\* is not stored: the detections held were computed from the image now shown.
C6_StaleResultDiscarded == (detections # <<>> /\ postedShown) => detectionsOf = imageUrl

\* C7: every detection either decoder returns at threshold t has score >= t.
C7_ScoreClearsThreshold ==
    phase = "decoded" =>
        \A t \in Thresholds :
            /\ \A k \in 1..Len(utilDets[t]) : JsGe(utilDets[t][k].score, ScoreUnits(t))
            /\ \A k \in 1..Len(workerDets[t]) : JsGe(workerDets[t][k].score, ScoreUnits(t))

\* C8: at threshold 0 the decoder returns N detections for [1, N, K] with K > 5,
\* H*W for [1, C, H, W] and N for [1, 84, N].
C8_OnePerUnitAtZero ==
    phase = "decoded" =>
        LET d == input.dims
        IN  /\ (Len(d) = 3 /\ d[1] = 1 /\ d[3] > ClassOffset /\ d[2] # DirectChannels)
                   => Len(utilDets[0]) = d[2]
            /\ (Len(d) = 4 /\ d[1] = 1) => Len(utilDets[0]) = d[3] * d[4]
            /\ (Len(d) = 3 /\ d[1] = 1 /\ d[2] = DirectChannels) => Len(utilDets[0]) = d[3]

\* C9: for thresholds t1 <= t2 the detections at t2 are a sub-list of those at t1,
\* in both decoders and every layout.
C9_MonotoneInThreshold ==
    phase = "decoded" =>
        \A t1, t2 \in Thresholds :
            t1 <= t2 => /\ IsSubSeq(utilDets[t2], utilDets[t1])
                        /\ IsSubSeq(workerDets[t2], workerDets[t1])

\* C9 happens: raising the threshold removed some detections of a rows tensor and kept others
C9_Witness ==
    /\ phase = "decoded"
    /\ UtilLayout(input.dims) = "rows"
    /\ \E t1, t2 \in Thresholds :
           t1 < t2 /\ Len(utilDets[t2]) > 0 /\ Len(utilDets[t2]) < Len(utilDets[t1])

\* what a rows tensor [1, N, K] decodes to when a row's score is objectness times the
\* largest of 0 and its first nslots class slots: the <<score, classId>> of the rows kept
RowsByRule(t, nslots) ==
    LET numRows == input.dims[2]
        rowLen == input.dims[3]
        objectness(r) == input.data[(r - 1) * rowLen + 5]
        slots(r) == [c \in 1..nslots |-> input.data[(r - 1) * rowLen + 5 + c]]
        top(r) == MaxOf(Range(slots(r)) \cup {0})
        classOf(r) == IF top(r) = 0 THEN 0
                      ELSE (CHOOSE c \in 1..nslots : slots(r)[c] = top(r)
                                                     /\ \A b \in 1..(c - 1) : slots(r)[b] < top(r)) - 1
        kept(r) == objectness(r) >= t /\ objectness(r) * top(r) >= t * Scale
    IN  Flatten([r \in 1..numRows |->
                    IF kept(r) THEN << <<objectness(r) * top(r), classOf(r)>> >> ELSE <<>>])

ScoresAndClasses(dets) == [k \in 1..Len(dets) |-> <<dets[k].score, dets[k].class_id>>]

IsRowsTensor == phase = "decoded" /\ Len(input.dims) = 3 /\ input.dims[1] = 1 /\ input.dims[3] > ClassOffset

\* C10 as stated: in a rows tensor [1, N, K], K > 5, a detection's score is objectness
\* times the maximum over all K-5 class slots of its row, and classId is that slot.
C10_MaxOverAllSlots ==
    IsRowsTensor =>
        \A t \in Thresholds :
            /\ ScoresAndClasses(utilDets[t]) = RowsByRule(t, input.dims[3] - ClassOffset)
            /\ ScoresAndClasses(workerDets[t]) = RowsByRule(t, input.dims[3] - ClassOffset)

\* C10 amended: the score is objectness times the largest of 0 and the class slots the
\* class table covers (classNames.length slots from index 5), classId is that slot.
C10_MaxOverClassTable ==
    IsRowsTensor =>
        \A t \in Thresholds :
            /\ ScoresAndClasses(utilDets[t]) = RowsByRule(t, Len(classNames))
            /\ ScoresAndClasses(workerDets[t]) = RowsByRule(t, Len(classNames))

\* C10 happens: a row with a later class slot above its first one was returned
C10_Witness ==
    /\ IsRowsTensor
    /\ input.dims[3] > ClassOffset + 1
    /\ input.data[ClassOffset + 2] > input.data[ClassOffset + 1]
    /\ \E t \in Thresholds : t > 0 /\ Len(workerDets[t]) > 0 /\ workerDets[t][1].score = input.data[5] * input.data[6]

\* what a record of a detection shows of its candidate: box, score and class id
BoxesScoresClasses(dets) ==
    [k \in 1..Len(dets) |-> <<dets[k].bbox, dets[k].score, dets[k].class_id>>]

\* what [1, 84, N] decodes to by the channel-major-flat rule: box i reads channel c at
\* index c * N + i, its score is the confidence (channel 4), its class id is 0
DirectByRule(t) ==
    LET n == input.dims[3]
        at(c, i) == input.data[c * n + i + 1]
    IN  Flatten([k \in 1..n |->
                    IF at(4, k - 1) >= t
                    THEN << <<ScaledBox(at(0, k - 1), at(1, k - 1), at(2, k - 1), at(3, k - 1), size),
                              at(4, k - 1) * Scale, 0>> >>
                    ELSE <<>>])

IsDirectTensor ==
    phase = "decoded" /\ Len(input.dims) = 3 /\ input.dims[1] = 1 /\ input.dims[2] = DirectChannels

\* C11: every [1, 84, N] tensor, N >= 1, is decoded by the channel-major-flat rule, by
\* the utility decoder and by the worker decoder, and gives at most N detections.
C11_DirectRuleForEveryN ==
    IsDirectTensor =>
        \A t \in Thresholds :
            /\ BoxesScoresClasses(utilDets[t]) = DirectByRule(t)
            /\ BoxesScoresClasses(workerDets[t]) = DirectByRule(t)
            /\ Len(utilDets[t]) <= input.dims[3]
            /\ Len(workerDets[t]) <= input.dims[3]

\* what a grid tensor [1, C, H, W] decodes to when every cell (row, col), row-major, is
\* one candidate and channel c of the cell is read at c * H * W + row * W + col
GridByRule(t) ==
    LET gridHeight == input.dims[3]
        gridWidth == input.dims[4]
        at(c, row, col) == input.data[c * gridHeight * gridWidth + row * gridWidth + col + 1]
        slots(row, col) == {at(ClassOffset + c, row, col) : c \in 0..(Len(classNames) - 1)}
        top(row, col) == MaxOf(slots(row, col) \cup {0})
        score(row, col) == at(4, row, col) * top(row, col)
        kept(row, col) == at(4, row, col) >= t /\ score(row, col) >= t * Scale
    IN  Flatten([k \in 1..(gridHeight * gridWidth) |->
                    LET row == (k - 1) \div gridWidth
                        col == (k - 1) % gridWidth
                    IN  IF kept(row, col)
                        THEN << <<ScaledBox(at(0, row, col), at(1, row, col), at(2, row, col),
                                            at(3, row, col), size),
                                  score(row, col), 0>> >>
                        ELSE <<>>])

IsGridTensor ==
    /\ phase = "decoded" /\ Len(input.dims) = 4 /\ input.dims[1] = 1
    /\ input.dims[2] >= ClassOffset + Len(classNames)

\* C12: a grid tensor [1, C, H, W] is decoded cell by cell, every cell one candidate,
\* channel c of cell (row, col) read at c*H*W + row*W + col, by both decoders.
C12_GridCellsByChannelMajorIndex ==
    IsGridTensor =>
        \A t \in Thresholds :
            /\ BoxesScoresClasses(utilDets[t]) = GridByRule(t)
            /\ BoxesScoresClasses(workerDets[t]) = GridByRule(t)

\* the [cx, cy, w, h] of the candidates the branch a decoder takes reads, in loop order
RecordCandidates(stride, count) ==
    [k \in 1..count |-> [c \in 1..4 |-> Read(input.data, (k - 1) * stride + (c - 1))]]

PlaneCandidates(count) ==
    [k \in 1..count |-> [c \in 1..4 |-> Read(input.data, (c - 1) * count + (k - 1))]]

UtilCandidates ==
    LET d == input.dims
        layout == UtilLayout(d)
    IN  IF layout = "rows" THEN RecordCandidates(d[3], d[2])
        ELSE IF layout = "grid" THEN PlaneCandidates(d[3] * d[4])
        ELSE IF layout = "direct" THEN PlaneCandidates(d[3])
        ELSE RecordCandidates(BoxSize, Len(input.data) \div BoxSize)

WorkerCandidates ==
    LET d == input.dims
        layout == WorkerLayout(d)
    IN  IF layout = "rows" THEN RecordCandidates(d[3], d[2])
        ELSE IF layout = "flat" THEN RecordCandidates(BoxSize, Len(input.data) \div BoxSize)
        ELSE IF layout = "batch" THEN RecordCandidates(d[3], d[1] * d[2])
        ELSE <<>>

\* the fraction f = <<numerator, denominator>> has the value num / den
FractionIs(f, num, den) == IF f[2] = den THEN f[1] = num ELSE f[1] * den = num * f[2]

\* bbox is ((cx - w/2) * origW/modelW, (cy - h/2) * origH/modelH, w * origW/modelW,
\* h * origH/modelH) for the candidate cand = [cx, cy, w, h] (values over Scale)
BoxByRule(bbox, cand) ==
    /\ FractionIs(bbox[1], (2 * cand[1] - cand[3]) * size.originalWidth, 2 * Scale * size.width)
    /\ FractionIs(bbox[2], (2 * cand[2] - cand[4]) * size.originalHeight, 2 * Scale * size.height)
    /\ FractionIs(bbox[3], cand[3] * size.originalWidth, Scale * size.width)
    /\ FractionIs(bbox[4], cand[4] * size.originalHeight, Scale * size.height)

\* every box of dets is the conversion of one of the candidates, and of the
\* candidate at its own position when every candidate was returned
BoxesByRule(dets, candidates) ==
    /\ \A k \in 1..Len(dets) : \E j \in 1..Len(candidates) : BoxByRule(dets[k].bbox, candidates[j])
    /\ Len(dets) = Len(candidates) => \A k \in 1..Len(dets) : BoxByRule(dets[k].bbox, candidates[k])

\* the worked example: 1000 x 500 image, 640 x 640 model input, candidate (320, 320, 64, 64)
IsGeometryExample == phase = "decoded" /\ input \in GeometryTensors /\ size = Preprocessed(DemoImage)

BoxIsExample(bbox) ==
    /\ FractionIs(bbox[1], 450, 1) /\ FractionIs(bbox[2], 225, 1)
    /\ FractionIs(bbox[3], 100, 1) /\ FractionIs(bbox[4], 50, 1)

\* when every candidate was returned, the one that is (320, 320, 64, 64) became (450, 225, 100, 50)
ExampleByRule(dets, candidates) ==
    (size = Preprocessed(DemoImage) /\ Len(dets) = Len(candidates)) =>
        \A k \in 1..Len(dets) :
            candidates[k] = SubSeq(GeometryRecord, 1, 4) => BoxIsExample(dets[k].bbox)

\* C13: in every branch of both decoders a candidate (cx, cy, w, h) becomes the box
\* ((cx - w/2)*origW/modelW, (cy - h/2)*origH/modelH, w*origW/modelW, h*origH/modelH);
\* with origW = 1000, origH = 500, model 640 x 640, (320, 320, 64, 64) gives (450, 225, 100, 50).
C13_CentreToCornerThenScale ==
    phase = "decoded" =>
        \A t \in Thresholds :
            /\ BoxesByRule(utilDets[t], UtilCandidates)
            /\ BoxesByRule(workerDets[t], WorkerCandidates)
            /\ ExampleByRule(utilDets[t], UtilCandidates)
            /\ ExampleByRule(workerDets[t], WorkerCandidates)

\* C13 happens: the worked example was decoded by both decoders from a rows tensor
C13_Witness ==
    /\ IsGeometryExample
    /\ UtilLayout(input.dims) = "rows"
    /\ Len(utilDets[Scale \div 2]) = 1 /\ BoxIsExample(utilDets[Scale \div 2][1].bbox)
    /\ Len(workerDets[Scale \div 2]) = 1 /\ BoxIsExample(workerDets[Scale \div 2][1].bbox)

BoxesAndScores(dets) == [k \in 1..Len(dets) |-> <<dets[k].bbox, dets[k].score>>]

\* what a flat buffer decodes to as consecutive 6-value records [x, y, w, h, confidence,
\* classId]: one detection per complete record whose confidence is at least t
FlatByRule(t) ==
    LET complete == Len(input.data) \div BoxSize
        at(r, c) == input.data[(r - 1) * BoxSize + c]
    IN  Flatten([r \in 1..complete |->
                    IF at(r, 5) >= t
                    THEN << <<ScaledBox(at(r, 1), at(r, 2), at(r, 3), at(r, 4), size), at(r, 5) * Scale>> >>
                    ELSE <<>>])

\* C14: in the fallback branch (the utility decoder's last resort, the worker's flat
\* branch) the result is one detection per complete 6-value record with confidence >=
\* threshold, in order; a trailing partial record gives nothing.
C14_FlatRecordsOfSix ==
    phase = "decoded" =>
        \A t \in Thresholds :
            /\ UtilLayout(input.dims) = "fallback" => BoxesAndScores(utilDets[t]) = FlatByRule(t)
            /\ WorkerLayout(input.dims) = "flat" => BoxesAndScores(workerDets[t]) = FlatByRule(t)

\* C14 happens: a 12-value buffer, one record at or above the threshold and one below,
\* gave exactly one detection in both decoders
C14_Witness ==
    /\ phase = "decoded"
    /\ input.dims = <<2 * BoxSize>>
    /\ \E t \in Thresholds :
           /\ input.data[5] >= t /\ input.data[BoxSize + 5] < t
           /\ Len(utilDets[t]) = 1 /\ Len(workerDets[t]) = 1

\* the shape is one of the three structurally-known layouts
IsKnownShape(d) ==
    \/ Len(d) = 3 /\ d[3] > ClassOffset
    \/ Len(d) = 4
    \/ Len(d) = 3 /\ d[2] = DirectChannels

\* the fallback finds no 6-value record boundary: the buffer is not a whole number of records
NoRecordBoundary == ~IsKnownShape(input.dims) /\ Len(input.data) % BoxSize # 0

\* C15: decoding ends with UnsupportedOutputShapeError exactly when the shape is none of
\* the three known layouts and the buffer has no 6-value record boundary; for the known
\* shapes it returns (an empty list when nothing clears the threshold).
C15_UnsupportedShapeRaises ==
    phase = "decoded" =>
        /\ (UtilDecodeError(input) = "UnsupportedOutputShapeError") <=> NoRecordBoundary
        /\ (WorkerDecodeError(input) = "UnsupportedOutputShapeError") <=> NoRecordBoundary

ResultEntries == {i \in RunEntries : log[i].resp = "INFERENCE_RESULT"}

\* every row of the rows tensor [1, N, K] that passes both threshold checks, in row
\* order, nothing merged or dropped: the <<box, score>> of each
RowsPassing(outputTensor, g, t) ==
    LET rowLen == outputTensor.dims[3]
        at(r, c) == outputTensor.data[(r - 1) * rowLen + c]
        score(r) == at(r, 5) * (IF at(r, 6) > 0 THEN at(r, 6) ELSE 0)
    IN  Flatten([r \in 1..outputTensor.dims[2] |->
                    IF at(r, 5) >= t /\ score(r) >= t * Scale
                    THEN << <<ScaledBox(at(r, 1), at(r, 2), at(r, 3), at(r, 4), g), score(r)>> >>
                    ELSE <<>>])

\* C16: the detections the worker answers with are all the candidates that pass both
\* threshold checks, duplicates and overlapping boxes included, in candidate order,
\* whatever iouThreshold the request carried.
C16_NoSuppression ==
    /\ \A i \in ResultEntries :
           WorkerLayout(log[i].output.dims) = "rows" =>
               BoxesAndScores(log[i].detections)
                   = RowsPassing(log[i].output, log[i].geom, log[i].confidenceThreshold)
    /\ \A i, j \in ResultEntries :
           (/\ log[i].output = log[j].output
            /\ log[i].geom = log[j].geom
            /\ log[i].confidenceThreshold = log[j].confidenceThreshold)
               => log[i].detections = log[j].detections

\* C16 happens: two requests that differ only in iouThreshold were answered from the
\* tensor with two equal boxes, and both answers hold both boxes
C16_Witness ==
    \E i, j \in ResultEntries :
        /\ log[i].output = SampleTwins /\ log[j].output = SampleTwins
        /\ log[i].confidenceThreshold = log[j].confidenceThreshold
        /\ log[i].iouThreshold # log[j].iouThreshold
        /\ Len(log[i].detections) = 2 /\ log[i].detections[1] = log[i].detections[2]
        /\ log[j].detections = log[i].detections

\* every value of the tensor, objectness and class values included, lies in [0, 1]
AllValuesInUnit == \A i \in 1..Len(input.data) : input.data[i] >= 0 /\ input.data[i] <= Scale

\* class_id is a non-negative integer, class_name an entry of the class table, and the
\* score lies in [0, 1] when the tensor's values do
WellFormed(det) ==
    /\ IsNum(det.class_id) /\ det.class_id \in Nat
    /\ det.class_name \in Range(classNames)
    /\ AllValuesInUnit => JsGe(det.score, 0) /\ JsGe(Scale * Scale, det.score)

\* C17: every detection of every branch of both decoders, the fallback included, has a
\* non-negative integer class_id, a class_name of the class table and, for a tensor with
\* values in [0, 1], a score in [0, 1].
C17_ClassAndScoreInRange ==
    phase = "decoded" =>
        \A t \in Thresholds :
            /\ \A k \in 1..Len(utilDets[t]) : WellFormed(utilDets[t][k])
            /\ \A k \in 1..Len(workerDets[t]) : WellFormed(workerDets[t][k])

Preprocessed3HW == 3 * modelHeight * modelWidth

\* C18: what preprocessImage resolves with is a buffer of exactly 3*H*W values, each a
\* byte 0..255 over 255 (so in [0, 1]), every index of it assigned exactly once.
C18_BufferLengthRangeAndWrites ==
    stage \in {"resolved", "fed"} =>
        /\ Len(resolved.tensor) = Preprocessed3HW
        /\ \A i \in 1..Len(resolved.tensor) :
               /\ resolved.tensor[i][2] = MaxByte
               /\ resolved.tensor[i][1] \in 0..MaxByte
               /\ resolved.tensor[i][1] <= resolved.tensor[i][2]
        /\ DOMAIN writes = 1..Preprocessed3HW
        /\ \A i \in 1..Preprocessed3HW : writes[i] = 1

\* C18 happens: a non-square buffer holding the largest byte was resolved
C18_Witness ==
    /\ stage = "resolved"
    /\ modelWidth # modelHeight
    /\ \E i \in 1..Len(resolved.tensor) : resolved.tensor[i] = <<MaxByte, MaxByte>>
    /\ \E i \in 1..Len(resolved.tensor) : resolved.tensor[i] = <<0, MaxByte>>

\* C19: the buffer is channel-major, then row-major: buffer[c*H*W + y*W + x] is the RGBA
\* sample [(y*W + x)*4 + c] over 255 for c = 0, 1, 2; the alpha sample (+3) is not copied.
C19_ChannelMajorRowMajor ==
    stage \in {"resolved", "fed"} =>
        /\ \A c \in 0..2, y \in 0..(modelHeight - 1), x \in 0..(modelWidth - 1) :
               resolved.tensor[c * modelHeight * modelWidth + y * modelWidth + x + 1]
                   = <<canvasData[(y * modelWidth + x) * 4 + c + 1], MaxByte>>
        /\ Len(resolved.tensor) * 4 = Len(canvasData) * 3

\* C19 happens: a canvas of several pixels whose first pixel has R, G, B and alpha that
\* tell the samples apart was copied
C19_Witness ==
    /\ stage = "resolved"
    /\ modelWidth > 1 /\ modelHeight > 1
    /\ canvasData[1] # canvasData[2] /\ canvasData[2] # canvasData[3]
    /\ canvasData[4] # canvasData[3] /\ canvasData[5] # canvasData[1]
    /\ resolved.tensor[1] = <<canvasData[1], MaxByte>>
    /\ resolved.tensor[2] = <<canvasData[5], MaxByte>>

\* C20: the input tensor runInference builds is [1, 3, H, W] over 3*H*W values, the
\* decoder gets modelW = W and modelH = H, and origW, origH are the natural size of the
\* source image.
C20_SizesThreadedThrough ==
    stage = "fed" =>
        /\ feed.dims = <<1, 3, modelHeight, modelWidth>>
        /\ Len(feed.data) = Preprocessed3HW
        /\ feed.modelWidth = modelWidth /\ feed.modelHeight = modelHeight
        /\ feed.originalWidth = NaturalSize(imageSrc)[1]
        /\ feed.originalHeight = NaturalSize(imageSrc)[2]

\* C20 happens: a request with different width and height was built
C20_Witness ==
    /\ stage = "fed"
    /\ modelWidth # modelHeight
    /\ feed.dims[3] = modelHeight /\ feed.dims[4] = modelWidth
    /\ feed.originalWidth # feed.originalHeight

\* the kind of failure a finished invocation ended with, from where it failed
FailureKind(e) ==
    IF e.cause = "create" \/ (e.cause = "guard" /\ e.type = "LOAD_MODEL") THEN "ModelLoad"
    ELSE IF e.cause = "guard" /\ e.type = "RUN_INFERENCE" /\ e.sess = 0 THEN "SessionNotReady"
    ELSE IF e.cause = "run" \/ e.cause = "output" THEN "Inference"
    ELSE IF e.cause = "decode" THEN "UnsupportedOutputShape"
    ELSE "Other"

\* what the caller receives: the fields of WorkerMessageOut
Delivered(e) == [type |-> e.resp, error |-> e.error, detections |-> e.detections]

Failures == {i \in 1..Len(log) : log[i].cause # "none"}

\* C21: every failure reaches the caller as an ERROR message, and two failures of
\* different kinds (model load, session not ready, inference execution, unsupported
\* output shape) never reach it as the same message.
C21_FailuresDistinctByKind ==
    \A i \in Failures :
        /\ log[i].resp = "ERROR"
        /\ \A j \in Failures :
               FailureKind(log[i]) # FailureKind(log[j]) => Delivered(log[i]) # Delivered(log[j])

\* C22: the threshold the decoder is run with is the confidenceThreshold the
\* RUN_INFERENCE message carried, 0 included, and 0.25 only when it carried none.
C22_ThresholdAsCarried ==
    \A i \in ResultEntries :
        LET carried == log[i].requested
            applied == IF carried = Undefined THEN DefaultConfidence ELSE carried
        IN  /\ log[i].confidenceThreshold = applied
            /\ log[i].detections = WorkerProcessYoloOutput(log[i].output, log[i].geom, applied)

\* every box value and the score of det are numbers (not undefined, not NaN)
AllNumbers(det) == IsNum(det.score) /\ \A c \in 1..4 : IsNum(det.bbox[c][1])

\* C23: for a tensor whose buffer length is the product of its shape, neither decoder
\* evaluates data[i] with i >= data.length, and no detection returned has an undefined
\* or NaN box value or score.
C23_ReadsInRangeValuesDefined ==
    (phase = "decoded" /\ Len(input.data) = Product(input.dims)) =>
        \A t \in Thresholds :
            /\ \A i \in UtilReadIndices(input, t) : i < Len(input.data)
            /\ \A i \in WorkerReadIndices(input, t) : i < Len(input.data)
            /\ \A k \in 1..Len(utilDets[t]) : AllNumbers(utilDets[t][k])
            /\ \A k \in 1..Len(workerDets[t]) : AllNumbers(workerDets[t][k])

\* C24: for every output tensor, image size, model size and threshold the worker's
\* decoder and the utility decoder return the same list of detections.
C24_DecodersAgree ==
    phase = "decoded" => \A t \in Thresholds : workerDets[t] = utilDets[t]

\* the invocation that finished in this step, when one did
Finished(type, resp) ==
    /\ Len(log') = Len(log) + 1
    /\ log'[Len(log')].type = type
    /\ log'[Len(log')].resp = resp

\* C25: a LOAD_MODEL that ends in ERROR (no modelUrl, or the creation threw) leaves
\* session as it was; session changes only in the step in which a creation succeeds,
\* so it is always the last session created and, once set, is never null again.
C25_FailedLoadKeepsSession ==
    /\ [](session = created)
    /\ [][Finished("LOAD_MODEL", "ERROR") => session' = session]_vars
    /\ [][session' # session => Finished("LOAD_MODEL", "MODEL_LOADED") /\ created' = created + 1]_vars

\* C25 happens: with a session in place a creation threw, and a RUN_INFERENCE posted
\* after that LOAD_MODEL was answered with a result by the same session
C25_Witness ==
    \E i, j \in 1..Len(log) :
        /\ log[i].type = "LOAD_MODEL" /\ log[i].resp = "ERROR" /\ log[i].cause = "create"
        /\ log[i].sess # 0
        /\ i < j /\ log[j].id > log[i].id
        /\ log[j].type = "RUN_INFERENCE" /\ log[j].resp = "INFERENCE_RESULT"
        /\ log[j].sess = log[i].sess /\ session = log[i].sess

\* RUN_INFERENCE requests posted and not yet answered to the component: waiting in the
\* worker's queue, at session.run, or answered with the answer still under way
PostedRuns ==
    Cardinality({i \in 1..Len(inbox) : inbox[i].type = "RUN_INFERENCE"})
      + Cardinality(RunsInFlight)
      + Cardinality({i \in 1..Len(outbox) : outbox[i].type # "MODEL_LOADED" /\ outbox[i].img # 0})

\* C26: at most one detect request is under way in the component; while one is (from
\* the click, through preprocessing, to the arrival of its answer) isProcessing is true;
\* and a click starts one only with an image selected, the model loaded and
\* isProcessing false.
C26_OneRequestOutstanding ==
    /\ [](PostedRuns <= 1)
    /\ [](Cardinality(preprocessing) + PostedRuns <= 1)
    /\ []((preprocessing # {} \/ PostedRuns > 0) => isProcessing)
    /\ [][clicks' # clicks => imageUrl # 0 /\ isModelLoaded /\ ~isProcessing /\ isProcessing']_vars

\* C26 happens: the second request is at session.run while the image has been removed
\* and the slider moved since the click
C26_Witness ==
    /\ clicks = 2
    /\ isProcessing
    /\ imageUrl = 0
    /\ \E k \in RunsInFlight : k.msg.confidenceThreshold # confidenceThreshold
    /\ readers # {}

\* C27: whenever isProcessing is true it becomes false later (the image load settles,
\* the worker handles the request, session.run resolves or rejects, the answer arrives).
C27_ProcessingEnds == isProcessing ~> ~isProcessing

\* C27 happens: a detection ended with a result and a later one with an ERROR from the
\* worker, after session.run rejected
C27_Witness ==
    /\ clicks = 2
    /\ ~isProcessing
    /\ preprocessing = {} /\ PostedRuns = 0
    /\ detections # <<>>
    /\ error = "run failed"

\* the slider was moved to another value while detections are stored
SliderMoved == confidenceThreshold' # confidenceThreshold /\ Len(detections) > 0

\* an INFERENCE_RESULT arrived while an image and its canvas are rendered
ResultArrived ==
    /\ outbox # <<>> /\ outbox' = Tail(outbox)
    /\ Head(outbox).type = "INFERENCE_RESULT"
    /\ imageUrl # 0

\* C28: when the overlay is redrawn, after the slider was moved to v and after an
\* INFERENCE_RESULT arrived, the boxes on the canvas are exactly the stored detections
\* with score >= the value the slider now has.
C28_OverlayUsesLatestThreshold ==
    /\ [][SliderMoved => overlay' = drawDetections(detections', confidenceThreshold')]_vars
    /\ [][ResultArrived => overlay' = drawDetections(detections', confidenceThreshold')]_vars

====
